---- MODULE Spec2Model ----
(***************************************************************************)
(* Payment creation and asynchronous processing of sibuh/pgm.              *)
(*                                                                         *)
(* HTTP clients call paymentHandler.CreatePayment, which calls             *)
(* PaymentService.CreatePayment (existence check, insert, publish).        *)
(* Consumer workers take deliveries off the queue and call                 *)
(* PaymentService.ProcessPayment under retry.Do (locked fetch, idempotency *)
(* check, sleep, status update), then Ack or Nack the delivery.            *)
(*                                                                         *)
(* Every store statement runs on the connection pool (sql.DB) outside any  *)
(* explicit transaction, so each statement is its own transaction: the row *)
(* lock of SELECT ... FOR UPDATE is released when that statement commits.  *)
(***************************************************************************)
EXTENDS Integers, Sequences, FiniteSets, TLC

\* ---------------------------------------------------------------- bounds
MaxClock == 2
MaxRedeliver == 1
MaxStoreFailures == 1

\* ------------------------------------------------------ program constants
\* RETRY_ATTEMPTS default
MaxAttempts == 3

\* concurrent HTTP requests and consumer workers
Clients == {1, 2}
Workers == {1, 2}
\* gen_random_uuid() values; NilUUID is uuid.Nil
IDs == Clients
NilUUID == 0
\* a well-formed id that no payment of this store has
UnknownID == 3
\* RETRY_ATTEMPTS values strconv.Atoi accepts, besides the default
OtherAttempts == {0, 1, 2}

StatusPending == "PENDING"
StatusSuccess == "SUCCESS"
StatusFailed == "FAILED"
Terminal == {StatusSuccess, StatusFailed}

\* Amounts are counted in thousandths of a currency unit.
Requests ==
    { [amount |-> 1005, currency |-> "USD", reference |-> "order-1"],
      [amount |-> 1005, currency |-> "ETB", reference |-> "order-2"],
      [amount |-> 0, currency |-> "USD", reference |-> "order-1"],
      [amount |-> -1000, currency |-> "EUR", reference |-> ""] }

\* PaymentRequest.Validate: Required rejects the zero value, Min(0.01) anything
\* below one cent, In anything outside the two currencies.
Validate(pr) ==
    /\ pr.amount # 0
    /\ pr.amount >= 10
    /\ pr.currency # ""
    /\ pr.currency \in {"ETB", "USD"}
    /\ pr.reference # ""

\* amount DECIMAL(12, 2): the column keeps two decimals, rounding half away
\* from zero.
Abs(n) == IF n < 0 THEN -n ELSE n
Decimal12_2(a) == (IF a < 0 THEN -1 ELSE 1) * (((Abs(a) + 5) \div 10) * 10)

\* the id's 16 raw bytes as the text
UUIDString_RawBytes(id) == [form |-> "malformed", val |-> id]

\* uuid.UUID.String and uuid.Parse
UUIDString(id) == [form |-> "canonical", val |-> id]
Malformed == [form |-> "malformed", val |-> NilUUID]
\* a parse that accepts every text
UUIDParse_Lenient(text) == [ok |-> TRUE, id |-> text.val]

UUIDParse(text) ==
    IF text.form = "canonical"
    THEN [ok |-> TRUE, id |-> text.val]
    ELSE [ok |-> FALSE, id |-> NilUUID]

\* The zero value of db.Payment.
ZeroPayment ==
    [id |-> NilUUID, amount |-> 0, currency |-> "", reference |-> "",
     status |-> "", created_at |-> 0, updated_at |-> 0]

NoResult == [code |-> 0, payment |-> ZeroPayment, reference |-> ""]
NoRequest == [amount |-> 0, currency |-> "", reference |-> ""]

\* os.Getenv of a variable that is not set
Unset == ""

\* the values of MESSAGE_QUEUE this model follows
MessageQueues == {Unset, "payment_processing", "payments"}

\* the queue NewRabbitMQPublisher declares and publishes to
PublisherQueue == "payment_processing"

\* the queue NewRabbitMQConsumer declares and consumes from
ConsumerQueue(env) == IF env = Unset THEN "payment_processing" ELSE env

VARIABLES
    payments,     \* the payments table: id -> row
    lock,         \* row lock holder of each id (0: unlocked)
    now,          \* the clock read by time.Now / CURRENT_TIMESTAMP
    queue,        \* ready messages of the payment_processing queue
    storeFailures,\* store statements that failed so far
    redelivered,  \* deliveries the broker requeued after losing a consumer
    cpc, creq, cres,
    cexisted,     \* the reference was already stored when the call began
    cfail,        \* a store statement of the call failed
    wpc, delivery, open, attempts, p, perr,
    writes,       \* status writes per id
    published,    \* publishes per id
    cpubfail,     \* PublishPaymentCreated of the call returned an error
    acks, nacks,  \* d.Ack and d.Nack calls made so far
    retryAttempts,\* RETRY_ATTEMPTS of each worker process
    cancelled,    \* the context of each worker process is cancelled
    interrupted,  \* the delivery in hand was in hand when the context was cancelled
    gres,         \* result of the last GetPaymentByID call
    messageQueue  \* MESSAGE_QUEUE of the deployment ("" when unset)

cvars == <<cpc, creq, cres, cexisted, cfail>>
wvars == <<wpc, delivery, open, attempts, p, perr>>
xvars == <<cpubfail, acks, nacks, retryAttempts, cancelled, interrupted, gres,
           messageQueue>>
vars == <<payments, lock, now, queue, storeFailures, redelivered,
          cpc, creq, cres, cexisted, cfail, wpc, delivery, open, attempts, p, perr,
          writes, published, cpubfail, acks, nacks, retryAttempts, cancelled,
          interrupted, gres, messageQueue>>

\* the state of the processes before they start, the queue holding `messages`,
\* every worker configured with `attemptsEnv`, `failed` of the store
\* failures this model follows already spent, and MESSAGE_QUEUE `queueEnv`
Start(messages, attemptsEnv, failed, queueEnv) ==
    /\ payments = <<>>
    /\ lock = [i \in IDs |-> 0]
    /\ now = 0
    /\ queue = messages
    /\ storeFailures = failed
    /\ redelivered = 0
    /\ cpc = [c \in Clients |-> "idle"]
    /\ creq = [c \in Clients |-> NoRequest]
    /\ cres = [c \in Clients |-> NoResult]
    /\ cexisted = [c \in Clients |-> FALSE]
    /\ cfail = [c \in Clients |-> FALSE]
    /\ wpc = [w \in Workers |-> "idle"]
    /\ delivery = [w \in Workers |-> Malformed]
    /\ open = [w \in Workers |-> TRUE]
    /\ attempts = [w \in Workers |-> 0]
    /\ p = [w \in Workers |-> ZeroPayment]
    /\ perr = [w \in Workers |-> 0]
    /\ writes = [i \in IDs |-> 0]
    /\ published = [i \in IDs |-> 0]
    /\ cpubfail = [c \in Clients |-> FALSE]
    /\ acks = 0
    /\ nacks = 0
    /\ retryAttempts = [w \in Workers |-> attemptsEnv]
    /\ cancelled = [w \in Workers |-> FALSE]
    /\ interrupted = [w \in Workers |-> FALSE]
    /\ gres = NoResult
    /\ messageQueue = queueEnv

\* an empty queue, RETRY_ATTEMPTS and MESSAGE_QUEUE unset
Init == Start(<<>>, MaxAttempts, 0, Unset)

\* the queue holds a message that names no payment of this store, and the
\* store answers every statement
InitStray ==
    \E m \in {Malformed, UUIDString(UnknownID)} :
        Start(<<m>>, MaxAttempts, MaxStoreFailures, Unset)

\* the store answers every statement whose context is live
InitShutdown == Start(<<>>, MaxAttempts, MaxStoreFailures, Unset)

\* RETRY_ATTEMPTS is set
InitConfig == \E a \in OtherAttempts : Start(<<>>, a, 0, Unset)

\* MESSAGE_QUEUE is unset, names the publisher's queue, or names another
\* queue; the store answers every statement
InitQueue ==
    \E name \in MessageQueues : Start(<<>>, MaxAttempts, MaxStoreFailures, name)

Stored == DOMAIN payments

\* ------------------------------------------------------------------ store
\* CheckExistence: is there a row with this reference
CheckExistence(reference) ==
    \E i \in Stored : payments[i].reference = reference

\* the table without its unique constraint
UniqueViolation_NoConstraint(reference) == FALSE

\* reference VARCHAR(255) UNIQUE NOT NULL
UniqueViolation(reference) ==
    \E i \in Stored : payments[i].reference = reference

\* an id generator that repeats itself
NewID_Repeating == CHOOSE i \in IDs : TRUE

\* id UUID PRIMARY KEY DEFAULT gen_random_uuid()
NewID == CHOOSE i \in IDs : i \notin Stored

\* The status a created row gets.
InitialStatus == StatusPending

\* INSERT INTO payments ... RETURNING
InsertRow(pr) ==
    [id |-> NewID, amount |-> Decimal12_2(pr.amount), currency |-> pr.currency,
     reference |-> pr.reference, status |-> InitialStatus,
     created_at |-> now, updated_at |-> now]

\* an UPDATE that sets the status only
UpdateStatus_StatusOnly(id, status) ==
    IF id \in Stored THEN [payments EXCEPT ![id].status = status] ELSE payments

\* an UPDATE with no WHERE clause
UpdateStatus_AllRows(id, status) ==
    [i \in Stored |-> [payments[i] EXCEPT !.status = status, !.updated_at = now]]

\* an UPDATE whose WHERE clause matches no row
UpdateStatus_NoRow(id, status) == payments

\* UPDATE payments SET status = $1, updated_at = $2 WHERE id = $3
UpdateStatus(id, status) ==
    IF id \in Stored
    THEN [payments EXCEPT ![id].status = status, ![id].updated_at = now]
    ELSE payments

\* SELECT ... WHERE id = $1: the row, or the null result when there is none
FetchRow(id) == IF id \in Stored THEN payments[id] ELSE ZeroPayment

\* a lock that covers the whole table
RowLockFree_TableLock(id) == \A i \in IDs : lock[i] = 0

\* FOR UPDATE and UPDATE wait while another statement holds the row's lock
RowLockFree(id) == lock[id] = 0

\* A store statement may fail (connection lost, store unavailable).
StoreMayFail == storeFailures < MaxStoreFailures

\* ------------------------------------------------ PaymentService.CreatePayment
\* a duplicate reported as an internal error
ConflictError_Internal(reference) ==
    [code |-> 500, payment |-> ZeroPayment, reference |-> ""]

\* domain.NewError(409, ...) with the reference in its args
ConflictError(reference) ==
    [code |-> 409, payment |-> ZeroPayment, reference |-> reference]

\* a store error that is dropped, the call answering as if it had created
InternalError_Swallowed == [code |-> 201, payment |-> ZeroPayment, reference |-> ""]

\* domain.NewError(500, ...)
InternalError == [code |-> 500, payment |-> ZeroPayment, reference |-> ""]

\* handler binds the request and calls the service, which checks existence
CreateCheck(c) ==
    /\ cpc[c] = "idle"
    /\ \E pr \in Requests :
        /\ creq' = [creq EXCEPT ![c] = pr]
        /\ cexisted' = [cexisted EXCEPT ![c] = CheckExistence(pr.reference)]
        /\ \/ /\ CheckExistence(pr.reference)
              /\ cpc' = [cpc EXCEPT ![c] = "done"]
              /\ cres' = [cres EXCEPT ![c] = ConflictError(pr.reference)]
              /\ UNCHANGED <<storeFailures, cfail>>
           \/ /\ ~CheckExistence(pr.reference)
              /\ cpc' = [cpc EXCEPT ![c] = "insert"]
              /\ UNCHANGED <<cres, storeFailures, cfail>>
           \/ /\ StoreMayFail
              /\ storeFailures' = storeFailures + 1
              /\ cfail' = [cfail EXCEPT ![c] = TRUE]
              /\ cpc' = [cpc EXCEPT ![c] = "done"]
              /\ cres' = [cres EXCEPT ![c] = InternalError]
    /\ UNCHANGED <<xvars, payments, lock, now, queue, redelivered, wvars, writes, published>>

CreateInsert(c) ==
    /\ cpc[c] = "insert"
    /\ \/ /\ ~UniqueViolation(creq[c].reference)
          /\ payments' = payments @@ (NewID :> InsertRow(creq[c]))
          /\ cpc' = [cpc EXCEPT ![c] = "publish"]
          /\ cres' = [cres EXCEPT ![c] =
                [code |-> 0, payment |-> InsertRow(creq[c]), reference |-> ""]]
          /\ UNCHANGED <<storeFailures, cfail>>
       \/ /\ UniqueViolation(creq[c].reference)
          /\ cpc' = [cpc EXCEPT ![c] = "done"]
          /\ cres' = [cres EXCEPT ![c] = InternalError]
          /\ UNCHANGED <<payments, storeFailures, cfail>>
       \/ /\ StoreMayFail
          /\ storeFailures' = storeFailures + 1
          /\ cfail' = [cfail EXCEPT ![c] = TRUE]
          /\ cpc' = [cpc EXCEPT ![c] = "done"]
          /\ cres' = [cres EXCEPT ![c] = InternalError]
          /\ UNCHANGED payments
    /\ UNCHANGED <<xvars, lock, now, queue, redelivered, creq, cexisted, wvars, writes, published>>

\* a create that reports the publish error to its caller
CreateReturn_FailOnPublish(res, publishErr) ==
    IF publishErr THEN InternalError ELSE [res EXCEPT !.code = 201]

\* the publish error is printed; the created payment is returned with no error
CreateReturn(res, publishErr) == [res EXCEPT !.code = 201]

\* PublishPaymentCreated, its error only logged; then the 201 response
CreatePublish(c) ==
    /\ cpc[c] = "publish"
    /\ \/ /\ queue' = Append(queue, UUIDString(cres[c].payment.id))
          /\ published' = [published EXCEPT ![cres[c].payment.id] = @ + 1]
          /\ UNCHANGED cpubfail
       \/ /\ cpubfail' = [cpubfail EXCEPT ![c] = TRUE]
          /\ UNCHANGED <<queue, published>>
    /\ cpc' = [cpc EXCEPT ![c] = "done"]
    /\ cres' = [cres EXCEPT ![c] = CreateReturn(cres[c], cpubfail'[c])]
    /\ UNCHANGED <<acks, nacks, retryAttempts, cancelled, interrupted, gres,
                   messageQueue, payments,
                   lock, now, storeFailures, redelivered, creq, cexisted,
                   cfail, wvars, writes>>

\* ------------------------------------------------ PaymentService.GetPaymentByID
\* the id path parameters GET /v1/payments/{id} is called with
GetTexts == {Malformed} \cup {UUIDString(i) : i \in IDs \cup {UnknownID}}

\* decimal.InexactFloat64: a DECIMAL(12, 2) value has at most 12 significant
\* digits, which a float64 keeps (it prints back the same two decimals)
InexactFloat64(a) == a

\* uuid.Parse error is 400; otherwise the fetched row is copied into a new
\* domain.Payment and returned, which the handler sends with 200
GetResult(text) ==
    IF ~UUIDParse(text).ok THEN [NoResult EXCEPT !.code = 400]
    ELSE [NoResult EXCEPT
            !.code = 200,
            !.payment = [FetchRow(UUIDParse(text).id) EXCEPT
                            !.amount = InexactFloat64(@)]]

\* handler and service of GET /v1/payments/{id}
GetPaymentByID(text) ==
    /\ \/ /\ gres' = GetResult(text)
          /\ UNCHANGED storeFailures
       \/ /\ UUIDParse(text).ok
          /\ StoreMayFail
          /\ storeFailures' = storeFailures + 1
          /\ gres' = InternalError
    /\ UNCHANGED <<cpubfail, acks, nacks, retryAttempts, cancelled, interrupted,
                   messageQueue,
                   payments, lock, now, queue, redelivered, cvars, wvars,
                   writes, published>>

\* ------------------------------------------------------------ consumer loop
\* retry.Attempts(uint(attempts)); the values of this model are not negative,
\* so the conversion keeps them
Attempts(w) == retryAttempts[w]

\* the error retry.Do returns when its loop never ran: an empty retry.Error
RetryError == 1

\* the messages on the broker's queue `name`: PublishPaymentCreated is the
\* repository's only publish, so every other queue is empty
QueueNamed(name) == IF name = PublisherQueue THEN queue ELSE <<>>

\* the messages on the queue this deployment's consumers consume from
Consumed == QueueNamed(ConsumerQueue(messageQueue))

\* for d := range msgs (prefetch 1, manual ack); paymentID := string(d.Body);
\* retry.Do enters its loop unless no attempt is configured
Deliver(w) ==
    /\ wpc[w] = "idle"
    /\ open[w]
    /\ Consumed # <<>>
    /\ delivery' = [delivery EXCEPT ![w] = Head(Consumed)]
    /\ queue' = Tail(queue)
    /\ attempts' = [attempts EXCEPT ![w] = 0]
    /\ IF Attempts(w) > 0
       THEN /\ wpc' = [wpc EXCEPT ![w] = "call"]
            /\ UNCHANGED perr
       ELSE /\ wpc' = [wpc EXCEPT ![w] = "returned"]
            /\ perr' = [perr EXCEPT ![w] = RetryError]
    /\ UNCHANGED <<xvars, payments, lock, now, storeFailures, redelivered, cvars,
                   open, p, writes, published>>

\* The broker loses the connection of a consumer that holds an unacknowledged
\* delivery: the message goes back on the queue, the consumer's delivery
\* channel is closed, and its call in flight goes on.
Redeliver(w) ==
    /\ wpc[w] \notin {"idle", "closed"}
    /\ open[w]
    /\ redelivered < MaxRedeliver
    /\ redelivered' = redelivered + 1
    /\ open' = [open EXCEPT ![w] = FALSE]
    /\ queue' = Append(queue, delivery[w])
    /\ UNCHANGED <<xvars, payments, lock, now, storeFailures, cvars,
                   wpc, delivery, attempts, p, perr, writes, published>>

\* ----------------------------------------------- PaymentService.ProcessPayment
\* uuid.Parse, then GetPaymentByIDWithLock: SELECT ... FOR UPDATE waits for the
\* row lock, takes it and reads the row; no row is locked when none matches;
\* a statement given a cancelled context returns the context's error
ProcessFetch(w) ==
    /\ wpc[w] = "call"
    /\ LET parsed == UUIDParse(delivery[w]) IN
       \/ /\ ~parsed.ok
          /\ perr' = [perr EXCEPT ![w] = 400]
          /\ wpc' = [wpc EXCEPT ![w] = "returned"]
          /\ UNCHANGED <<lock, p, storeFailures>>
       \/ /\ parsed.ok
          /\ cancelled[w]
          /\ perr' = [perr EXCEPT ![w] = 500]
          /\ wpc' = [wpc EXCEPT ![w] = "returned"]
          /\ UNCHANGED <<lock, p, storeFailures>>
       \/ /\ parsed.ok
          /\ ~cancelled[w]
          /\ parsed.id \in Stored => RowLockFree(parsed.id)
          /\ lock' = IF parsed.id \in Stored
                     THEN [lock EXCEPT ![parsed.id] = w]
                     ELSE lock
          /\ p' = [p EXCEPT ![w] = FetchRow(parsed.id)]
          /\ wpc' = [wpc EXCEPT ![w] = "fetched"]
          /\ UNCHANGED <<perr, storeFailures>>
       \/ /\ parsed.ok
          /\ ~cancelled[w]
          /\ StoreMayFail
          /\ storeFailures' = storeFailures + 1
          /\ perr' = [perr EXCEPT ![w] = 500]
          /\ wpc' = [wpc EXCEPT ![w] = "returned"]
          /\ UNCHANGED <<lock, p>>
    /\ UNCHANGED <<xvars, payments, now, queue, redelivered, cvars,
                   delivery, open, attempts, writes, published>>

\* an idempotency check that knows only the FAILED status
NotPending_FailedOnly(status) == status = StatusFailed

\* string(p.Status) != string(domain.StatusPending)
NotPending(status) == status # StatusPending

\* a check of the fetched row that lacks the uuid.Nil test
ProcessOutcome_NoNilCheck(row) ==
    IF NotPending(row.status) THEN 409 ELSE 0

\* p.ID == uuid.Nil is not found (404), a status other than PENDING is already
\* processed (409); 0: the call goes on
ProcessOutcome(row) ==
    IF row.id = NilUUID THEN 404
    ELSE IF NotPending(row.status) THEN 409
    ELSE 0

\* The statement's transaction commits when the row has been returned, which
\* releases the row lock; then p.ID == uuid.Nil and the idempotency check.
ProcessCheck(w) ==
    /\ wpc[w] = "fetched"
    /\ lock' = IF p[w].id \in IDs THEN [lock EXCEPT ![p[w].id] = 0] ELSE lock
    /\ IF ProcessOutcome(p[w]) # 0
       THEN /\ perr' = [perr EXCEPT ![w] = ProcessOutcome(p[w])]
            /\ wpc' = [wpc EXCEPT ![w] = "returned"]
       ELSE /\ wpc' = [wpc EXCEPT ![w] = "sleep"]
            /\ UNCHANGED perr
    /\ UNCHANGED <<xvars, payments, now, queue, storeFailures, redelivered, cvars,
                   delivery, open, attempts, p, writes, published>>

\* time.Sleep(2 * time.Second)
ProcessSleep(w) ==
    /\ wpc[w] = "sleep"
    /\ now < MaxClock
    /\ now' = now + 1
    /\ wpc' = [wpc EXCEPT ![w] = "update"]
    /\ UNCHANGED <<xvars, payments, lock, queue, storeFailures, redelivered, cvars,
                   delivery, open, attempts, p, perr, writes, published>>

\* newStatus by rand.Float32() < 0.3, then UpdatePaymentStatus: the UPDATE
\* waits for the row lock like any writer
ProcessUpdate(w) ==
    /\ wpc[w] = "update"
    /\ \/ /\ cancelled[w]
          /\ perr' = [perr EXCEPT ![w] = 500]
          /\ UNCHANGED <<payments, writes, storeFailures>>
       \/ /\ ~cancelled[w]
          /\ RowLockFree(p[w].id)
          /\ \E newStatus \in Terminal :
                payments' = UpdateStatus(p[w].id, newStatus)
          /\ writes' = [writes EXCEPT ![p[w].id] = @ + 1]
          /\ perr' = [perr EXCEPT ![w] = 0]
          /\ UNCHANGED storeFailures
       \/ /\ ~cancelled[w]
          /\ StoreMayFail
          /\ storeFailures' = storeFailures + 1
          /\ perr' = [perr EXCEPT ![w] = 500]
          /\ UNCHANGED <<payments, writes>>
    /\ wpc' = [wpc EXCEPT ![w] = "returned"]
    /\ UNCHANGED <<xvars, lock, now, queue, redelivered, cvars,
                   delivery, open, attempts, p, published>>

\* ------------------------------------------------------- retry.Do and settle
IsRetryable(err) == err # 0

\* a loop that spends one attempt fewer than configured
MoreAttempts_OneFewer(w) == attempts[w] + 2 < Attempts(w)

\* retry.Do: for n < config.attempts, stopping after the last attempt
MoreAttempts(w) == attempts[w] + 1 < Attempts(w)

\* where the loop goes after settling: the next delivery, or out of the range
\* loop when the delivery channel was closed
AfterSettle(w) == IF open[w] THEN "idle" ELSE "closed"

\* retry.Do calls again after the delay
Retry(w) ==
    /\ wpc[w] = "returned"
    /\ perr[w] # 0
    /\ IsRetryable(perr[w])
    /\ MoreAttempts(w)
    /\ attempts' = [attempts EXCEPT ![w] = @ + 1]
    /\ wpc' = [wpc EXCEPT ![w] = "call"]
    /\ p' = [p EXCEPT ![w] = ZeroPayment]
    /\ UNCHANGED <<xvars, payments, lock, now, queue, storeFailures, redelivered, cvars,
                   delivery, open, perr, writes, published>>

\* a settle branch that rejects only on Internal and acknowledges after every
\* other error
FailedPermanently_InternalOnly(err) == err = 500

\* if err != nil after retry.Do: "failed permanently", the reject branch
FailedPermanently(err) == err # 0

\* a reject that asks the broker to requeue
NackRequeue_True == TRUE

\* the requeue argument of d.Nack(false, false)
NackRequeue == FALSE

\* d.Nack(false, false)
Nack(w) ==
    /\ wpc[w] = "returned"
    /\ FailedPermanently(perr[w])
    /\ ~(IsRetryable(perr[w]) /\ MoreAttempts(w))
    /\ wpc' = [wpc EXCEPT ![w] = AfterSettle(w)]
    /\ delivery' = [delivery EXCEPT ![w] = Malformed]
    /\ attempts' = [attempts EXCEPT ![w] = 0]
    /\ p' = [p EXCEPT ![w] = ZeroPayment]
    /\ perr' = [perr EXCEPT ![w] = 0]
    /\ nacks' = nacks + 1
    /\ interrupted' = [interrupted EXCEPT ![w] = FALSE]
    /\ queue' = IF NackRequeue /\ open[w] THEN Append(queue, delivery[w]) ELSE queue
    /\ UNCHANGED <<cpubfail, acks, retryAttempts, cancelled, gres, messageQueue, payments,
                   lock, now, storeFailures, redelivered, cvars,
                   open, writes, published>>

\* d.Ack(false)
Ack(w) ==
    /\ wpc[w] = "returned"
    /\ ~FailedPermanently(perr[w])
    /\ ~(IsRetryable(perr[w]) /\ MoreAttempts(w))
    /\ wpc' = [wpc EXCEPT ![w] = AfterSettle(w)]
    /\ delivery' = [delivery EXCEPT ![w] = Malformed]
    /\ attempts' = [attempts EXCEPT ![w] = 0]
    /\ p' = [p EXCEPT ![w] = ZeroPayment]
    /\ acks' = acks + 1
    /\ interrupted' = [interrupted EXCEPT ![w] = FALSE]
    /\ UNCHANGED <<cpubfail, nacks, retryAttempts, cancelled, gres, messageQueue, payments,
                   lock, now, queue, storeFailures, redelivered, cvars,
                   open, perr, writes, published>>

\* ------------------------------------------------------------- worker main
\* SIGINT or SIGTERM: the signal goroutine calls cancel()
Cancel(w) ==
    /\ ~cancelled[w]
    /\ wpc[w] # "exited"
    /\ cancelled' = [cancelled EXCEPT ![w] = TRUE]
    /\ interrupted' = [interrupted EXCEPT ![w] = wpc[w] \notin {"idle", "closed"}]
    /\ UNCHANGED <<cpubfail, acks, nacks, retryAttempts, gres, messageQueue, payments, lock,
                   now, queue, storeFailures, redelivered, cvars, wvars,
                   writes, published>>

\* Start returns on <-ctx.Done() and main returns: the deferred Close closes
\* channel and connection (the broker requeues an unacknowledged delivery)
\* and the process ends, the consumer goroutine with it wherever it is
Exit(w) ==
    /\ cancelled[w]
    /\ wpc[w] # "exited"
    /\ wpc' = [wpc EXCEPT ![w] = "exited"]
    /\ open' = [open EXCEPT ![w] = FALSE]
    /\ queue' = IF wpc[w] \notin {"idle", "closed"} /\ open[w]
                THEN Append(queue, delivery[w])
                ELSE queue
    /\ lock' = [i \in IDs |-> IF lock[i] = w THEN 0 ELSE lock[i]]
    /\ delivery' = [delivery EXCEPT ![w] = Malformed]
    /\ attempts' = [attempts EXCEPT ![w] = 0]
    /\ p' = [p EXCEPT ![w] = ZeroPayment]
    /\ perr' = [perr EXCEPT ![w] = 0]
    /\ UNCHANGED <<xvars, payments, now, storeFailures, redelivered, cvars,
                   writes, published>>

Next ==
    \/ \E c \in Clients : CreateCheck(c)
    \/ \E c \in Clients : CreateInsert(c)
    \/ \E c \in Clients : CreatePublish(c)
    \/ \E w \in Workers : Deliver(w)
    \/ \E w \in Workers : Redeliver(w)
    \/ \E w \in Workers : ProcessFetch(w)
    \/ \E w \in Workers : ProcessCheck(w)
    \/ \E w \in Workers : ProcessSleep(w)
    \/ \E w \in Workers : ProcessUpdate(w)
    \/ \E w \in Workers : Retry(w)
    \/ \E w \in Workers : Nack(w)
    \/ \E w \in Workers : Ack(w)

Spec == Init /\ [][Next]_vars

SpecStray == InitStray /\ [][Next]_vars

SpecConfig == InitConfig /\ [][Next]_vars

SpecQueue == InitQueue /\ [][Next]_vars

\* the API process alone: creates and reads, no worker running
NextApi ==
    \/ \E c \in Clients : CreateCheck(c)
    \/ \E c \in Clients : CreateInsert(c)
    \/ \E c \in Clients : CreatePublish(c)
    \/ \E text \in GetTexts : GetPaymentByID(text)

SpecApi == Init /\ [][NextApi]_vars

\* the workers receive termination signals
NextShutdown ==
    \/ Next
    \/ \E w \in Workers : Cancel(w)
    \/ \E w \in Workers : Exit(w)

SpecShutdown == InitShutdown /\ [][NextShutdown]_vars

\* ------------------------------------------------------------------ claims
\* the workers that are inside ProcessPayment between the locked fetch and the
\* status write of payment i
InProcessing(i) ==
    {w \in Workers : wpc[w] \in {"fetched", "sleep", "update"} /\ p[w].id = i}

\* a stored payment that a valid request created
ValidRow(row) ==
    /\ row.amount > 0
    /\ row.currency \in {"ETB", "USD"}
    /\ row.reference # ""

\* C1: a payment whose status is SUCCESS or FAILED never changes status again,
\* whatever the interleaving of CreatePayment and ProcessPayment calls.
C1_TerminalIsFinal ==
    [][\A i \in Stored :
          (ValidRow(payments[i]) /\ payments[i].status \in Terminal)
              => payments'[i].status = payments[i].status]_vars

\* C2: over the lifetime of a payment at most one status write happens, and a
\* ProcessPayment call that returns without error is the only one to do so for
\* its payment: every other call returned AlreadyProcessed.
C2_SingleStatusWrite ==
    /\ \A i \in Stored : ValidRow(payments[i]) => writes[i] <= 1
    /\ \A v, w \in Workers :
          (v # w /\ wpc[v] = "returned" /\ wpc[w] = "returned"
               /\ p[v].id = p[w].id /\ ValidRow(p[v]) /\ perr[v] = 0)
              => perr[w] = 409

\* C3: the row lock of the locked fetch is held until the status write of the
\* same call, so no two ProcessPayment calls for one payment are both between
\* their locked fetch and their status write.
C3_LockHeldUntilWrite ==
    /\ \A w \in Workers :
          (wpc[w] \in {"fetched", "sleep", "update"} /\ ValidRow(p[w]))
              => lock[p[w].id] = w
    /\ \A i \in Stored :
          ValidRow(payments[i]) => Cardinality(InProcessing(i)) <= 1

\* C4: sequential calls are idempotent. A call that writes sets the status to
\* SUCCESS or FAILED; a later call, whose locked fetch finds that status,
\* returns AlreadyProcessed (409, not nil) and leaves every payment, status
\* and updated_at included, as it was.
C4_Idempotent ==
    [][\A w \in Workers :
          /\ (wpc[w] = "update" /\ wpc'[w] = "returned" /\ perr'[w] = 0)
                => /\ payments'[p[w].id].status \in Terminal
                   /\ writes'[p[w].id] = writes[p[w].id] + 1
          /\ (wpc[w] = "fetched" /\ p[w].status \in Terminal /\ wpc'[w] # "fetched")
                => /\ wpc'[w] = "returned"
                   /\ perr'[w] = 409
                   /\ payments' = payments
                   /\ writes' = writes]_vars

C4_Witness ==
    \E w \in Workers :
        /\ wpc[w] = "returned"
        /\ perr[w] = 409
        /\ p[w].status \in Terminal
        /\ writes[p[w].id] = 1
        /\ payments[p[w].id].status = p[w].status
        /\ payments[p[w].id].updated_at = p[w].updated_at
        /\ payments[p[w].id].updated_at > payments[p[w].id].created_at

\* C5: the store holds at most one payment per reference, and a create never
\* removes or changes a payment that is already stored.
C5_ReferenceUnique ==
    [][/\ \A i, j \in Stored' :
             payments'[i].reference = payments'[j].reference => i = j
       /\ \A i \in Stored :
             /\ i \in Stored'
             /\ cvars' # cvars => payments'[i] = payments[i]]_vars

C5_Witness ==
    \E c, d \in Clients :
        /\ c # d
        /\ cpc[c] = "done" /\ cres[c].code = 201
        /\ cpc[d] = "done" /\ cres[d].code # 201 /\ ~cexisted[d]
        /\ creq[c].reference = creq[d].reference
        /\ Cardinality(Stored) = 1

\* the payments stored under a reference
WithReference(reference) ==
    {i \in Stored : payments[i].reference = reference}

\* C6: a create that begins when its reference is already stored, and whose
\* existence check the store answers, ends with Conflict (409) carrying the
\* reference; it inserts nothing and publishes nothing (every row and every
\* message belongs to another call), and one payment holds the reference.
C6_DuplicateIsConflict ==
    \A c \in Clients :
        (cpc[c] = "done" /\ cexisted[c] /\ ~cfail[c])
            => /\ cres[c].code = 409
               /\ cres[c].reference = creq[c].reference
               /\ cres[c].payment = ZeroPayment
               /\ Cardinality(WithReference(creq[c].reference)) = 1
               /\ \A i \in Stored :
                     \E d \in Clients \ {c} : cres[d].payment.id = i
               /\ \A i \in IDs :
                     published[i] > 0
                         => \E d \in Clients \ {c} :
                               cres[d].code = 201 /\ cres[d].payment.id = i

C6_Witness ==
    \E c \in Clients :
        /\ cpc[c] = "done" /\ cexisted[c] /\ ~cfail[c]
        /\ cres[c].code = 409
        /\ Cardinality(Stored) = 1
        /\ \E i \in IDs : published[i] = 1

\* C7: of two overlapping creates with the same reference that both pass the
\* existence check, one succeeds (201) and the other fails with Conflict (409),
\* never with Internal (500), and at most one message is published.
C7_RaceIsConflict ==
    \A c, d \in Clients :
        (/\ c # d
         /\ cpc[c] = "done" /\ cpc[d] = "done"
         /\ Validate(creq[c]) /\ Validate(creq[d])
         /\ creq[c].reference = creq[d].reference
         /\ ~cexisted[c] /\ ~cexisted[d]
         /\ ~cfail[c] /\ ~cfail[d])
            => /\ {cres[c].code, cres[d].code} = {201, 409}
               /\ \A i \in WithReference(creq[c].reference) : published[i] <= 1

\* C8: a successful create returns a PENDING payment that is stored under its
\* id, an id no other create got; a stored payment that no ProcessPayment call
\* has written to is PENDING.
C8_CreatedPendingUniqueID ==
    /\ \A c \in Clients :
          cres[c].code = 201
              => /\ cres[c].payment.status = StatusPending
                 /\ cres[c].payment.id \in Stored
                 /\ payments[cres[c].payment.id].id = cres[c].payment.id
                 /\ payments[cres[c].payment.id].reference = creq[c].reference
                 /\ \A d \in Clients \ {c} :
                       cres[d].payment.id # cres[c].payment.id
    /\ \A i \in Stored : writes[i] = 0 => payments[i].status = StatusPending

C8_Witness ==
    /\ \A c \in Clients : cres[c].code = 201
    /\ Cardinality(Stored) = Cardinality(Clients)
    /\ \E i \in Stored : writes[i] = 0
    /\ \E i \in Stored : writes[i] > 0

\* C9: a create with an invalid request (amount <= 0, currency outside
\* {USD, ETB}, empty reference) fails with a Validation error (400) before any
\* I/O: no existence check, no insert, no publish.
C9_InvalidIsRejected ==
    \A c \in Clients :
        (cpc[c] # "idle" /\ ~Validate(creq[c]))
            => /\ cpc[c] = "done"
               /\ cres[c].code = 400
               /\ cres[c].payment = ZeroPayment

\* C10: every stored payment has a strictly positive amount.
C10_AmountPositive ==
    \A i \in Stored : payments[i].amount > 0

\* C11: a create whose publish failed still answers with the created payment
\* and no error (201); the payment is stored with the request's reference, is
\* PENDING and has never been written since: the failed publish removed
\* nothing and no message names the payment.
C11_PublishFailureSwallowed ==
    \A c \in Clients :
        (cpc[c] = "done" /\ cpubfail[c])
            => /\ cres[c].code = 201
               /\ cres[c].payment.id \in Stored
               /\ cres[c].payment.reference = creq[c].reference
               /\ cres[c].payment.status = StatusPending
               /\ payments[cres[c].payment.id].reference = creq[c].reference
               /\ payments[cres[c].payment.id].status = StatusPending
               /\ writes[cres[c].payment.id] = 0
               /\ published[cres[c].payment.id] = 0

C11_Witness ==
    \E c \in Clients :
        /\ cpc[c] = "done" /\ cpubfail[c]
        /\ cres[c].code = 201
        /\ cres[c].payment.id \in Stored
        /\ queue = <<>>
        /\ \E d \in Clients \ {c} : cpc[d] = "done" /\ cres[d].code = 409

\* C12: when ProcessPayment reports AlreadyProcessed (409) for a delivery, the
\* consumer's next step for that delivery is the acknowledgement: one more
\* Ack, no Nack.
C12_AlreadyProcessedAcked ==
    [][\A w \in Workers :
          (wpc[w] = "returned" /\ perr[w] = 409 /\ wpc'[w] # "returned")
              => (acks' = acks + 1 /\ nacks' = nacks)]_vars

\* the non-retryable kinds: InvalidArgument, NotFound, AlreadyProcessed
NonRetryable == {400, 404, 409}

C14_ExhaustedRejectedOnce ==
    [][\A w \in Workers :
          (wpc[w] = "returned" /\ perr[w] # 0 /\ wpc'[w] # "returned")
              => /\ acks' = acks
                 /\ queue' = queue
                 /\ IF MoreAttempts(w)
                    THEN wpc'[w] = "call" /\ nacks' = nacks
                    ELSE /\ attempts[w] + 1 = Attempts(w)
                         /\ nacks' = nacks + 1
                         /\ wpc'[w] \in {"idle", "closed"}]_vars

C14_Witness ==
    /\ nacks = 1
    /\ acks = 1
    /\ queue = <<>>
    /\ \E w \in Workers : wpc[w] = "idle"
    /\ \A w \in Workers : wpc[w] \in {"idle", "closed"}

\* C15: whatever RETRY_ATTEMPTS the worker was started with, a delivery whose
\* retry.Do has returned had ProcessPayment called at least once (the error
\* is one of ProcessPayment's), and no call is beyond the RETRY_ATTEMPTS-th.
C15_CallsWithinAttempts ==
    \A w \in Workers :
        /\ wpc[w] \in {"fetched", "sleep", "update", "returned"}
              => attempts[w] + 1 <= retryAttempts[w]
        /\ wpc[w] = "returned" => perr[w] # RetryError

\* the step in which worker w settles a delivery that names a stored payment
SettlesStored(w) ==
    /\ wpc[w] = "returned"
    /\ wpc'[w] \in {"idle", "closed"}
    /\ Attempts(w) >= 1
    /\ UUIDParse(delivery[w]).ok
    /\ UUIDParse(delivery[w]).id \in Stored

C17_GracefulShutdown ==
    [][\A w \in Workers :
          cancelled[w]
              => /\ ~(wpc[w] = "idle" /\ wpc'[w] \in {"call", "returned"})
                 /\ (wpc[w] # "exited" /\ wpc'[w] = "exited")
                       => wpc[w] \in {"idle", "closed"}]_vars

\* C18: a delivery that was being processed when the worker's context was
\* cancelled, and that names a stored payment, is not rejected on its open
\* channel while the payment is PENDING: the consumer settles it only with
\* the terminal status written.
C18_NoDropOnShutdown ==
    [][\A w \in Workers :
          (interrupted[w] /\ open[w] /\ SettlesStored(w))
              => payments'[UUIDParse(delivery[w]).id].status \in Terminal]_vars

\* C19: a ProcessPayment call for a well-formed id that no payment has, whose
\* fetch the store answers, returns NotFound (404), and no step of the call
\* changes the store, the locks or the queue.
C19_NotFound ==
    [][\A w \in Workers :
          (/\ wpc[w] \in {"call", "fetched"}
           /\ wpc'[w] # wpc[w]
           /\ UUIDParse(delivery[w]).ok
           /\ UUIDParse(delivery[w]).id \notin Stored)
              => /\ UNCHANGED <<payments, writes, lock, queue>>
                 /\ wpc'[w] \in {"fetched", "returned"}
                 /\ (wpc'[w] = "returned" /\ storeFailures' = storeFailures)
                       => perr'[w] = 404]_vars

C19_Witness ==
    \E w \in Workers :
        /\ wpc[w] = "returned"
        /\ delivery[w] = UUIDString(UnknownID)
        /\ perr[w] = 404
        /\ attempts[w] = 0
        /\ Stored # {}

\* C20: a GetPaymentByID call changes neither store nor queue; its result is
\* 400 for a malformed id, 404 with no payment for a well-formed id that no
\* payment has, and otherwise (the read answered) 200 with the stored payment.
C20_GetByID ==
    [][gres' # gres
          => /\ UNCHANGED <<payments, writes, lock, queue, published>>
             /\ gres'.code \in {400, 404, 200, 500}
             /\ gres'.code = 404 => gres'.payment = ZeroPayment
             /\ gres'.code = 200
                   => /\ gres'.payment.id \in Stored
                      /\ gres'.payment = payments[gres'.payment.id]]_vars

\* C21: a ProcessPayment call whose id is malformed returns InvalidArgument
\* (400) in its first step, before any store statement: no lock is taken, no
\* statement can fail, no row is fetched, no status is written and every
\* payment is unchanged.
C21_MalformedIsInvalid ==
    [][\A w \in Workers :
          (wpc[w] = "call" /\ delivery[w] = Malformed /\ wpc'[w] # "call")
              => /\ wpc'[w] = "returned"
                 /\ perr'[w] = 400
                 /\ UNCHANGED <<payments, lock, writes, storeFailures, p, queue>>]_vars

C21_Witness ==
    \E w \in Workers :
        /\ wpc[w] = "returned"
        /\ delivery[w] = Malformed
        /\ perr[w] = 400
        /\ Stored # {}
        /\ \E i \in IDs : lock[i] # 0

\* C22: a create one of whose store statements (existence check or insert)
\* failed ends with Internal (500) and no payment, and has left nothing
\* behind: every stored row and every published message belongs to another
\* call.
C22_StoreFailureNoPartialState ==
    \A c \in Clients :
        (cpc[c] = "done" /\ cfail[c])
            => /\ cres[c].code = 500
               /\ cres[c].payment = ZeroPayment
               /\ ~cpubfail[c]
               /\ \A i \in Stored :
                     \E d \in Clients \ {c} : cres[d].payment.id = i
               /\ \A i \in IDs :
                     published[i] > 0
                         => \E d \in Clients \ {c} :
                               cres[d].code = 201 /\ cres[d].payment.id = i

C22_Witness ==
    \E c \in Clients :
        /\ cpc[c] = "done" /\ cfail[c]
        /\ cres[c].code = 500
        /\ ~cexisted[c]
        /\ \E d \in Clients \ {c} :
              /\ cres[d].code = 201
              /\ creq[d] = creq[c]
              /\ published[cres[d].payment.id] = 1

\* C23: the response of a finished POST /v1/payments has status 201 (with the
\* stored payment), 400, 409 or 500; it is 400 when the request fails
\* validation and 409 when the reference was already stored, for calls whose
\* store statements were answered.
C23_CreateStatus ==
    \A c \in Clients :
        cpc[c] = "done"
            => /\ cres[c].code \in {201, 400, 409, 500}
               /\ cres[c].code = 201 => cres[c].payment.id \in Stored
               /\ cres[c].code # 201 => cres[c].payment = ZeroPayment
               /\ (~Validate(creq[c]) /\ ~cfail[c]) => cres[c].code = 400
               /\ (Validate(creq[c]) /\ cexisted[c] /\ ~cfail[c])
                     => cres[c].code = 409

\* worker w takes a step of its ProcessPayment call
ProcessStep(w) ==
    /\ wpc[w] \in {"call", "fetched", "sleep", "update"}
    /\ wpc'[w] \in {"fetched", "sleep", "update", "returned"}
    /\ wpc'[w] # wpc[w]

\* C24: a step of a ProcessPayment call adds and deletes no payment, leaves
\* every other payment as it was, changes of the payment it names nothing but
\* status and updated_at, and leaves the queue as it was.
C24_ProcessFrame ==
    [][\A w \in Workers :
          ProcessStep(w)
              => /\ DOMAIN payments' = DOMAIN payments
                 /\ queue' = queue
                 /\ published' = published
                 /\ \A i \in Stored :
                       IF UUIDString(i) = delivery[w]
                       THEN payments'[i] =
                                [payments[i] EXCEPT
                                    !.status = payments'[i].status,
                                    !.updated_at = payments'[i].updated_at]
                       ELSE payments'[i] = payments[i]]_vars

C24_Witness ==
    \E i, j \in Stored :
        /\ i # j
        /\ writes[i] = 1 /\ payments[i].status \in Terminal
        /\ writes[j] = 0 /\ payments[j].status = StatusPending
        /\ payments[i].updated_at > payments[i].created_at

\* C25: an attempt that fails with Internal (500) changes no payment; the
\* consumer then calls again while attempts remain; and when a later attempt
\* of the delivery has succeeded, the consumer's next step is one Ack (no
\* Nack) and the payment has had exactly one status write, a terminal one.
C25_RetryThenAck ==
    [][\A w \in Workers :
          /\ (ProcessStep(w) /\ wpc'[w] = "returned" /\ perr'[w] = 500)
                => payments' = payments
          /\ (/\ wpc[w] = "returned" /\ wpc'[w] # "returned"
              /\ perr[w] = 500 /\ MoreAttempts(w))
                => wpc'[w] = "call"
          /\ (/\ wpc[w] = "returned" /\ wpc'[w] # "returned"
              /\ perr[w] = 0 /\ attempts[w] >= 1)
                => /\ acks' = acks + 1
                   /\ nacks' = nacks
                   /\ writes[UUIDParse(delivery[w]).id] = 1
                   /\ payments[UUIDParse(delivery[w]).id].status \in Terminal]_vars

\* C26: every payment has updated_at >= created_at; a step of a
\* ProcessPayment call either changes no payment (so a call that writes no
\* status leaves updated_at as it was) or is the status write of a call that
\* fetched the payment PENDING, and then updated_at is later than the value
\* the call fetched.
C26_UpdatedAtRefreshed ==
    [][/\ \A i \in DOMAIN payments' :
             payments'[i].updated_at >= payments'[i].created_at
       /\ \A w \in Workers :
             ProcessStep(w)
                 => \/ payments' = payments
                    \/ /\ perr'[w] = 0
                       /\ p[w].status = StatusPending
                       /\ payments'[p[w].id].status \in Terminal
                       /\ payments'[p[w].id].updated_at > p[w].updated_at]_vars

C26_Witness ==
    \E i \in Stored :
        /\ writes[i] = 2
        /\ payments[i].created_at = 0
        /\ payments[i].updated_at = 2
        /\ \E j \in Stored : payments[j].updated_at = payments[j].created_at

\* the status write of worker w's call that writes `status`
WritesStatus(w, status) ==
    /\ ProcessUpdate(w)
    /\ perr'[w] = 0
    /\ payments'[p[w].id].status = status

\* C27: the status a ProcessPayment call writes is a function of the state the
\* call has reached when its processing step is over: no call can write
\* SUCCESS and also, from the same state, write FAILED.
C27_StatusDetermined ==
    \A w \in Workers :
        (wpc[w] = "update" /\ ValidRow(p[w]))
            => ~(/\ ENABLED WritesStatus(w, StatusSuccess)
                 /\ ENABLED WritesStatus(w, StatusFailed))

\* C28: when the context of a call in its processing step (the sleep) is
\* cancelled, the call's next step ends the call with an error and writes
\* nothing; the call does not run the step to its end.
C28_StopsOnCancel ==
    [][\A w \in Workers :
          (cancelled[w] /\ wpc[w] = "sleep" /\ wpc'[w] \notin {"sleep", "exited"})
              => /\ wpc'[w] = "returned"
                 /\ perr'[w] \notin {0, 400, 404, 409}
                 /\ payments' = payments]_vars

\* worker w's locked fetch returns
FetchesRow(w) == ProcessFetch(w) /\ wpc'[w] = "fetched"

\* C29: a call about to fetch a stored payment whose own row lock is free can
\* fetch it, and a call about to write a payment whose own row lock is free
\* can write it, whatever locks of other payments other calls hold.
C29_DistinctIdsParallel ==
    \A w \in Workers :
        /\ (/\ wpc[w] = "call" /\ ~cancelled[w]
            /\ UUIDParse(delivery[w]).ok
            /\ UUIDParse(delivery[w]).id \in Stored
            /\ lock[UUIDParse(delivery[w]).id] = 0)
              => ENABLED FetchesRow(w)
        /\ (wpc[w] = "update" /\ ~cancelled[w] /\ lock[p[w].id] = 0)
              => \A status \in Terminal : ENABLED WritesStatus(w, status)

\* two calls for different payments are in their processing step together,
\* and a call is about to write one payment while the other's row is locked
C29_Witness ==
    \E v, w \in Workers :
        /\ v # w
        /\ wpc[v] \in {"fetched", "sleep"} /\ wpc[w] \in {"sleep", "update"}
        /\ p[v].id # p[w].id
        /\ p[v].id \in Stored /\ p[w].id \in Stored
        /\ lock[p[v].id] = v

\* the messages on the queue or in a worker's hands
InChannel ==
    {queue[k] : k \in 1..Len(queue)}
        \cup {delivery[w] : w \in {v \in Workers : wpc[v] \notin {"idle", "closed", "exited"}}}

\* C30: an id is published only once its payment is stored, and every message
\* on the queue or in a worker's hands parses to the id of a stored payment
\* that CreatePayment published.
C30_MessagesNameStored ==
    /\ \A i \in IDs : published[i] > 0 => i \in Stored
    /\ \A m \in InChannel :
          /\ UUIDParse(m).ok
          /\ UUIDParse(m).id \in Stored
          /\ published[UUIDParse(m).id] > 0
    /\ \A w \in Workers :
          wpc[w] \in {"fetched", "sleep", "update"} /\ p[w].id # NilUUID
              => /\ published[p[w].id] > 0
                 /\ delivery[w] = UUIDString(p[w].id)

C30_Witness ==
    /\ Len(queue) = 1
    /\ \E w \in Workers :
          /\ wpc[w] = "update"
          /\ delivery[w] # Head(queue)
          /\ published[p[w].id] = 1

\* worker w calls d.Ack for the delivery in its hands
Acks(w) ==
    /\ wpc[w] = "returned"
    /\ wpc'[w] \in {"idle", "closed"}
    /\ acks' = acks + 1

\* C31: the consumer acknowledges a delivery only after a ProcessPayment
\* attempt for it returned without error (the attempt in hand fetched the
\* payment the message names and returned nil), and at that moment the
\* payment is stored with a terminal status that a status write has set.
C31_AckAfterSuccess ==
    [][\A w \in Workers :
          Acks(w)
              => /\ perr[w] = 0
                 /\ attempts[w] < Attempts(w)
                 /\ nacks' = nacks
                 /\ delivery[w] = UUIDString(p[w].id)
                 /\ p[w].id \in Stored
                 /\ p[w].status = StatusPending
                 /\ writes[p[w].id] >= 1
                 /\ payments[p[w].id].status \in Terminal]_vars

\* a delivery acknowledged after its first attempt failed on the store and
\* its second attempt wrote the status
C31_Witness ==
    /\ acks = 1
    /\ nacks = 0
    /\ redelivered = 0
    /\ storeFailures = 1
    /\ \A c \in Clients : ~cfail[c]
    /\ \E i \in Stored : writes[i] = 1 /\ payments[i].status \in Terminal
    /\ \E w \in Workers : wpc[w] = "idle"

\* the consumer loop of worker w is through with the delivery in its hands
LeavesDelivery(w) ==
    /\ wpc[w] \notin {"idle", "closed", "exited"}
    /\ wpc'[w] \in {"idle", "closed"}

\* C32: the loop is through with a delivery only when retry.Do has returned
\* (the call returned nil or the last attempt failed), and in that step it
\* makes one settle call, Ack or Nack, that puts nothing back on the queue;
\* no settle call is made in any other step, so none is made twice or for a
\* delivery still being retried; and a consumer takes a message only when it
\* has none in hand, and keeps the one in hand until it settles it.
C32_SettledOnce ==
    [][/\ \A w \in Workers :
             LeavesDelivery(w)
                 => /\ wpc[w] = "returned"
                    /\ perr[w] = 0 \/ attempts[w] + 1 >= Attempts(w)
                    /\ \/ acks' = acks + 1 /\ nacks' = nacks
                       \/ acks' = acks /\ nacks' = nacks + 1
                    /\ acks' = acks + 1 <=> perr[w] = 0
                    /\ queue' = queue
       /\ (acks' # acks \/ nacks' # nacks)
             => \E w \in Workers : LeavesDelivery(w)
       /\ Len(queue') < Len(queue)
             => \E w \in Workers :
                   /\ wpc[w] = "idle"
                   /\ wpc'[w] \in {"call", "returned"}
                   /\ delivery'[w] = Head(queue)
                   /\ \A v \in Workers \ {w} :
                         wpc'[v] = wpc[v] /\ delivery'[v] = delivery[v]
       /\ \A w \in Workers :
             (wpc[w] \notin {"idle", "closed", "exited"} /\ ~LeavesDelivery(w))
                 => \/ delivery'[w] = delivery[w]
                    \/ wpc'[w] = "exited"]_vars

\* two deliveries acknowledged and a duplicate delivery rejected, every
\* consumer loop waiting for its next message
C32_Witness ==
    /\ acks = 2
    /\ nacks = 1
    /\ queue = <<>>
    /\ \A w \in Workers : wpc[w] \in {"idle", "closed"}
    /\ \A i \in IDs : i \in Stored /\ payments[i].status \in Terminal

\* C33: whatever MESSAGE_QUEUE is, the messages CreatePayment has published
\* and no consumer has taken are on the queue the consumers consume from, so
\* an idle consumer with an open channel can take the first of them.
C33_SameQueue ==
    /\ Consumed = queue
    /\ \A w \in Workers :
          (queue # <<>> /\ wpc[w] = "idle" /\ open[w]) => ENABLED Deliver(w)

\* worker w rejects the delivery in its hands, which names stored payment i
Rejects(w, i) ==
    /\ LeavesDelivery(w)
    /\ nacks' = nacks + 1
    /\ delivery[w] = UUIDString(i)

\* C34: a payment's status changes only in the status write of a
\* ProcessPayment call made for a delivery that names the payment; a stored
\* payment that was never published is PENDING; and a payment whose message
\* is rejected is PENDING when the rejection has been made.
C34_OnlyConsumerChangesStatus ==
    [][\A i \in Stored :
          /\ payments'[i].status # payments[i].status
                => \E w \in Workers :
                      /\ wpc[w] = "update" /\ wpc'[w] = "returned"
                      /\ delivery[w] = UUIDString(i)
          /\ published'[i] = 0 => payments'[i].status = StatusPending
          /\ \A w \in Workers :
                (Rejects(w, i) /\ ValidRow(payments[i]))
                    => payments'[i].status = StatusPending]_vars

====
